---------------------------- MODULE Spec2Model ----------------------------
(***************************************************************************)
(* A model of scripts/prototypical.py: the Prototypical network's forward  *)
(* pass (Prototypical.call), the distance helper calc_euclidian_dists and  *)
(* the two persistence hooks (Prototypical.save, Prototypical.load).       *)
(*                                                                         *)
(* Abstractions, stated once:                                              *)
(*  - float32 values are fixed-point integers, Scale units to 1.0, every   *)
(*    division rounded to nearest;                                         *)
(*  - an image is one pixel (w = h = c = 1): the 3x3 same-padded kernel    *)
(*    sees only its centre tap and 2x2 max-pooling of one position is that *)
(*    position; the 64 filters are Filters channels;                       *)
(*  - the layers' framework defaults are those of Keras: kernel drawn by   *)
(*    the initializer (here: by a seed), bias 0, gamma 1, beta 0, moving   *)
(*    mean 0, moving variance 1, momentum 0.99, epsilon 0.001.             *)
(***************************************************************************)
EXTENDS Integers, Sequences, FiniteSets

(***************************************************************************)
(* Bounds of the model.                                                    *)
(***************************************************************************)
\* number of filters of a convolution (64 in the source)
Filters == 1
\* largest n_class of an episode
MaxClass == 2
\* largest number of forward calls of a run
MaxCalls == 2
\* depth of the interpreter's call stack (sys.getrecursionlimit())
RecursionLimit == 3

(***************************************************************************)
(* Program constants.                                                      *)
(***************************************************************************)
\* len(self.conv_layers): the number of conv / max-pool / batch-norm blocks
NumBlocks == 4
\* BatchNormalization() default momentum, in percent
MomentumPct == 99

\* fixed-point unit: Scale stands for 1.0
Scale == 100
\* BatchNormalization() default epsilon 0.001, in units of 1/Scale^2
Epsilon == (Scale * Scale) \div 1000

Blocks == 1..NumBlocks
Chans == 1..Filters

(***************************************************************************)
(* Fixed-point arithmetic.                                                 *)
(***************************************************************************)
\* a / b rounded to nearest (b > 0)
RoundDiv(a, b) == (2 * a + b) \div (2 * b)

\* product of two fixed-point numbers
Mul(a, b) == RoundDiv(a * b, Scale)

RECURSIVE SqrtIter(_, _, _)
SqrtIter(n, lo, hi) ==
    IF lo >= hi THEN lo
    ELSE LET mid == (lo + hi + 1) \div 2
         IN  IF mid * mid <= n THEN SqrtIter(n, mid, hi)
                               ELSE SqrtIter(n, lo, mid - 1)

\* the largest r with r * r <= n
ISqrt(n) == SqrtIter(n, 0, IF n < 40000 THEN n ELSE 40000)

\* a function on 1..n as an evaluated sequence (its entries computed once)
AsSeq(f) == f \o <<>>

RECURSIVE SumSeq(_)
SumSeq(s) == IF s = <<>> THEN 0 ELSE Head(s) + SumSeq(Tail(s))

\* tf.reduce_mean of a sequence of fixed-point numbers
MeanSeq(s) == RoundDiv(SumSeq(s), Len(s))


(***************************************************************************)
(* Tensors.  A batch is a sequence of rows, a row a sequence of channel    *)
(* values.  A support or query tensor [n, k, w, h, c] is a sequence of n   *)
(* class blocks, each a sequence of k images, an image one pixel.          *)
(***************************************************************************)
\* tensor.shape[0]
Shape0(t) == Len(t)
\* tensor.shape[1]
Shape1(t) == Len(t[1])
\* the number of elements of a tensor [n, k, 1, 1, 1]
NumElements(t) == Shape0(t) * Shape1(t)

\* the images of a tensor in row-major order, each a one-channel row
Rows(t) ==
    AsSeq([i \in 1..NumElements(t) |->
        << t[((i - 1) \div Shape1(t)) + 1][((i - 1) % Shape1(t)) + 1] >>])

NoError == "none"
ShapeError == "InvalidArgumentError"

\* tf.reshape(t, [n, w, h, c]) with w = h = c = 1: the element counts must agree
Reshape(t, n) ==
    IF NumElements(t) = n THEN [raised |-> NoError, x |-> Rows(t)]
                          ELSE [raised |-> ShapeError, x |-> <<>>]

(***************************************************************************)
(* The layers of one block.                                                *)
(***************************************************************************)
Relu(v) == IF v > 0 THEN v ELSE 0

\* Conv2D(filters, kernel_size=3, padding="same", activation='relu') on a batch
Conv2D(x, kernel, bias) ==
    AsSeq([n \in 1..Len(x) |->
        AsSeq([j \in Chans |->
            Relu(SumSeq([i \in 1..Len(x[n]) |-> Mul(x[n][i], kernel[i][j])])
                 + bias[j])])])

\* MaxPool2D() on a batch of single positions
MaxPool2D(x) == x

\* per-channel mean and (biased) variance of a batch
BatchMean(x) == AsSeq([j \in Chans |-> MeanSeq([n \in 1..Len(x) |-> x[n][j]])])

BatchVar(x) ==
    LET m == BatchMean(x)
    IN  AsSeq([j \in Chans |->
            RoundDiv(SumSeq([n \in 1..Len(x) |-> (x[n][j] - m[j]) * (x[n][j] - m[j])]),
                     Len(x) * Scale)])

\* gamma * (x - mean) / sqrt(var + epsilon) + beta
Normalize(x, mean, var, gamma, beta) ==
    LET sd == AsSeq([j \in Chans |-> ISqrt(var[j] * Scale + Epsilon)])
    IN  AsSeq([n \in 1..Len(x) |->
            AsSeq([j \in Chans |->
                Mul(gamma[j], RoundDiv((x[n][j] - mean[j]) * Scale, sd[j])) + beta[j]])])

\* moving = moving * momentum + batch * (1 - momentum)
MovingAverage(moving, batch) ==
    AsSeq([j \in Chans |->
        RoundDiv(MomentumPct * moving[j] + (100 - MomentumPct) * batch[j], 100)])

(***************************************************************************)
(* BatchNormalization()(x, training): the output and the layer's state    *)
(* after the call.  bn is the layer's record of gamma, beta, moving mean   *)
(* and moving variance.                                                    *)
(***************************************************************************)
BatchNorm(x, bn, training) ==
    IF training
    THEN [out |-> Normalize(x, BatchMean(x), BatchVar(x), bn.gamma, bn.beta),
          bn  |-> [bn EXCEPT !.mmean = MovingAverage(bn.mmean, BatchMean(x)),
                             !.mvar  = MovingAverage(bn.mvar, BatchVar(x))]]
    ELSE [out |-> Normalize(x, bn.mmean, bn.mvar, bn.gamma, bn.beta),
          bn  |-> bn]

(***************************************************************************)
(* The loop over the blocks (lines 76-79 and 87-90): from block i on, with *)
(* the model's weights w; returns the batch after the last block and the   *)
(* weights after the calls.                                                *)
(***************************************************************************)
RECURSIVE BlocksFrom(_, _, _, _)
BlocksFrom(i, x, w, training) ==
    IF i > NumBlocks THEN [x |-> x, w |-> w]
    ELSE LET c == Conv2D(x, w.conv[i].kernel, w.conv[i].bias)
             p == MaxPool2D(c)
             b == BatchNorm(p, w.bn[i], training)
         IN  BlocksFrom(i + 1, b.out, [w EXCEPT !.bn[i] = b.bn], training)

\* Flatten() of a batch of single positions
Flatten(x) == x

\* (variant) the difference is not squared
calc_dists_unsquared(x, y) ==
    AsSeq([i \in 1..Len(x) |->
        AsSeq([j \in 1..Len(y) |->
            MeanSeq([d \in 1..Len(x[i]) |-> x[i][d] - y[j][d]])])])

(***************************************************************************)
(* calc_euclidian_dists(x, y): for every row of x and every row of y the   *)
(* mean over the feature axis of the squared difference.                   *)
(***************************************************************************)
calc_euclidian_dists(x, y) ==
    AsSeq([i \in 1..Len(x) |->
        AsSeq([j \in 1..Len(y) |->
            MeanSeq([d \in 1..Len(x[i]) |-> Mul(x[i][d] - y[j][d], x[i][d] - y[j][d])])])])

(***************************************************************************)
(* tf.nn.log_softmax(logits, axis=-1).  The entry j of a row stands for    *)
(* the real number  logits[j] - log(sum_k exp(logits[k]))  and is kept as  *)
(* the pair of its logit and the row it is normalised by.                  *)
(***************************************************************************)
log_softmax(logits) ==
    AsSeq([i \in 1..Len(logits) |->
        AsSeq([j \in 1..Len(logits[i]) |-> [logit |-> logits[i][j], row |-> logits[i]]])])

\* a < b for two entries of one log-softmax row
LogpLess(a, b) == a.logit < b.logit

\* (variant) on a tie the largest index
ArgMaxLast(row) ==
    (CHOOSE j \in 1..Len(row) :
        /\ \A i \in 1..Len(row) : ~LogpLess(row[j], row[i])
        /\ \A i \in (j + 1)..Len(row) : LogpLess(row[i], row[j])) - 1

\* tf.argmax over one row of log-probabilities, 0-based: on a tie the smallest index
ArgMax(row) ==
    (CHOOSE j \in 1..Len(row) :
        /\ \A i \in 1..Len(row) : ~LogpLess(row[j], row[i])
        /\ \A i \in 1..(j - 1) : LogpLess(row[i], row[j])) - 1

\* (variant) the classes are numbered from 1
LabelsFromOne(n_class, n_query) ==
    AsSeq([k \in 1..n_class |-> AsSeq([q \in 1..n_query |-> k])])

\* np.tile(np.arange(n_class)[:, np.newaxis], (1, n_query))
Labels(n_class, n_query) ==
    AsSeq([k \in 1..n_class |-> AsSeq([q \in 1..n_query |-> k - 1])])

\* tf.one_hot(y, n_class)
OneHot(y, n_class) ==
    AsSeq([k \in 1..Len(y) |-> AsSeq([q \in 1..Len(y[k]) |->
        AsSeq([j \in 1..n_class |-> IF j - 1 = y[k][q] THEN 1 ELSE 0])])])

\* tf.reshape(t, [n_class, n_query, -1]) of a tensor of n_class * n_query rows
ReshapeBlocks(t, n_class, n_query) ==
    AsSeq([k \in 1..n_class |-> AsSeq([q \in 1..n_query |-> t[(k - 1) * n_query + q]])])

\* tf.reshape(t, [-1]) of a tensor [n_class, n_query]
FlattenBlocks(t) ==
    AsSeq([i \in 1..NumElements(t) |->
        t[((i - 1) \div Shape1(t)) + 1][((i - 1) % Shape1(t)) + 1]])

\* tf.reduce_sum(tf.multiply(y_onehot, log_p_y), axis=-1) for one query: the
\* log-probabilities with a non-zero one-hot coefficient, in index order
MaskedSum(onehot, logp) ==
    LET RECURSIVE Pick(_)
        Pick(j) == IF j > Len(logp) THEN <<>>
                   ELSE (IF onehot[j] = 1 THEN <<logp[j]>> ELSE <<>>) \o Pick(j + 1)
    IN  Pick(1)

\* (variant) the entries are summed, not averaged
ReduceSum(flat) == [num |-> SumSeq(flat), den |-> 1]

\* tf.reduce_mean of a tensor of 0.0 / 1.0 entries, as the fraction num / den
ReduceMean(flat) == [num |-> SumSeq(flat), den |-> Len(flat)]

\* tf.cast(tf.equal(tf.cast(tf.argmax(log_p_y, axis=-1), tf.int32), y), tf.float32)
Equal(log_p_y, y) ==
    AsSeq([k \in 1..Len(y) |-> AsSeq([q \in 1..Len(y[k]) |->
        IF ArgMax(log_p_y[k][q]) = y[k][q] THEN 1 ELSE 0])])

\* -t for a matrix t
Negate(t) ==
    AsSeq([i \in 1..Len(t) |-> AsSeq([j \in 1..Len(t[i]) |-> 0 - t[i][j]])])

(***************************************************************************)
(* Lines 93-105 of call: distances, log-softmax, loss and accuracy.  The   *)
(* loss, minus the mean over the queries of the masked sums, is kept as    *)
(* the sequence of these sums.                                             *)
(***************************************************************************)
LossHead(z_query, z_prototypes, n_class, n_query) ==
    LET y        == Labels(n_class, n_query)
        y_onehot == OneHot(y, n_class)
        dists    == calc_euclidian_dists(z_query, z_prototypes)
        log_p_y  == ReshapeBlocks(log_softmax(Negate(dists)), n_class, n_query)
        loss     == FlattenBlocks(
                        AsSeq([k \in 1..n_class |-> AsSeq([q \in 1..n_query |->
                            MaskedSum(y_onehot[k][q], log_p_y[k][q])])]))
        eq       == Equal(log_p_y, y)
        acc      == ReduceMean(FlattenBlocks(eq))
    IN  [loss |-> loss, acc |-> acc, dists |-> dists, eq |-> eq]

(***************************************************************************)
(* Prototypical.call(support, query, training).  The support path runs     *)
(* first and leaves its batch-normalization updates in the weights; the    *)
(* query path runs on the weights the support path left.  Returns the      *)
(* weights after the call, what the call returns (ret: the pair of loss    *)
(* and accuracy, or the error raised) and the intermediate tensors.        *)
(***************************************************************************)
\* (variant) the support path follows the caller's training flag
SupportTrainingFromFlag(training) == training

\* (variant) the query path follows the caller's training flag
QueryTrainingFromFlag(training) == training

\* the training argument of the batch-normalization calls of the support path
SupportTraining(training) == TRUE

\* the training argument of the batch-normalization calls of the query path
QueryTraining(training) == FALSE

\* tf.math.reduce_mean(tf.reshape(z_support, [n_class, n_support, dim]), axis=1)
Prototypes(z_support, n_class, n_support) ==
    AsSeq([k \in 1..n_class |->
        AsSeq([d \in 1..Len(z_support[1]) |->
            MeanSeq([s \in 1..n_support |-> z_support[(k - 1) * n_support + s][d]])])])

\* (variant) the first n_class * n_query images of the query are taken
ReshapeQueryTruncating(query, n_class, n_query) ==
    IF NumElements(query) >= n_class * n_query
    THEN [raised |-> NoError, x |-> SubSeq(Rows(query), 1, n_class * n_query)]
    ELSE [raised |-> ShapeError, x |-> <<>>]

\* line 85: tf.reshape(query, [n_class * n_query, self.w, self.h, self.c])
ReshapeQuery(query, n_class, n_query) == Reshape(query, n_class * n_query)

call(w, support, query, training) ==
    LET n_class   == Shape0(support)
        n_support == Shape1(support)
        n_query   == Shape1(query)
        xs        == Reshape(support, n_class * n_support)
        sp        == BlocksFrom(1, xs.x, w, SupportTraining(training))
        z_support == Flatten(sp.x)
        z_prototypes == Prototypes(z_support, n_class, n_support)
        xq        == ReshapeQuery(query, n_class, n_query)
    IN  IF xq.raised # NoError
        THEN [w |-> sp.w, raised |-> xq.raised, ret |-> <<>>,
              z_support |-> z_support, z_prototypes |-> z_prototypes,
              z_query |-> <<>>, dists |-> <<>>, eq |-> <<>>]
        ELSE LET qp      == BlocksFrom(1, xq.x, sp.w, QueryTraining(training))
                 z_query == Flatten(qp.x)
                 h       == LossHead(z_query, z_prototypes, n_class, n_query)
             IN  [w |-> qp.w, raised |-> NoError, ret |-> <<h.loss, h.acc>>,
                  z_support |-> z_support, z_prototypes |-> z_prototypes,
                  z_query |-> z_query, dists |-> h.dists, eq |-> h.eq]

(***************************************************************************)
(* Construction (lines 40-61) and the contents a weights file can have.    *)
(***************************************************************************)
Seeds == {1, 2}

\* the kernel initializer's draw for block l, input channel i, filter j
KernelDraw(seed, l, i, j) ==
    IF seed = 1 THEN Scale ELSE (Scale \div 2) * (1 + ((l + i + j) % 3))

\* the weights of a model after construction
InitialWeights(seed) ==
    [conv |-> AsSeq([l \in Blocks |->
                 [kernel |-> AsSeq([i \in 1..(IF l = 1 THEN 1 ELSE Filters) |->
                                 AsSeq([j \in Chans |-> KernelDraw(seed, l, i, j)])]),
                  bias   |-> AsSeq([j \in Chans |-> 0])]]),
     bn   |-> AsSeq([l \in Blocks |->
                 [gamma |-> AsSeq([j \in Chans |-> Scale]),
                  beta  |-> AsSeq([j \in Chans |-> 0]),
                  mmean |-> AsSeq([j \in Chans |-> 0]),
                  mvar  |-> AsSeq([j \in Chans |-> Scale])]])]

\* the weights w with every moving statistic equal to the batch statistic of
\* the support batch x from block i on: what training on x alone converges to
RECURSIVE ConvergedFrom(_, _, _)
ConvergedFrom(i, x, w) ==
    IF i > NumBlocks THEN w
    ELSE LET p == MaxPool2D(Conv2D(x, w.conv[i].kernel, w.conv[i].bias))
         IN  ConvergedFrom(i + 1, BatchNorm(p, w.bn[i], TRUE).out,
                           [w EXCEPT !.bn[i].mmean = BatchMean(p),
                                     !.bn[i].mvar  = BatchVar(p)])

(***************************************************************************)
(* Prototypical.save(model_path), line 117: the one statement of the body  *)
(* is a call of save itself, on the same arguments; it reaches no          *)
(* serializer.  What the statement does with the weights w and the file f: *)
(* whether it opens a new frame of save, and the file it leaves.           *)
(* (SaveBodySerialize is the variant that hands the weights to the         *)
(* framework's serializer and returns.)                                    *)
(***************************************************************************)
SaveBodySerialize(w, f) == [recurse |-> FALSE, file |-> <<w>>]

SaveBody(w, f) == [recurse |-> TRUE, file |-> f]

(***************************************************************************)
(* Prototypical.load(model_path), line 130: self.load_weights(model_path). *)
(* The weights after the call and the error raised.                        *)
(***************************************************************************)
NotFoundError == "NotFoundError"

load(w, f) ==
    IF f = <<>> THEN [w |-> w, raised |-> NotFoundError]
                ELSE [w |-> f[1], raised |-> NoError]

(***************************************************************************)
(* Inputs.                                                                 *)
(***************************************************************************)
Pixels == {0, 2 * Scale}
Shots == {1, 2}

\* the tensors [n, k, 1, 1, 1]
Tensors(n, k) == [1..n -> [1..k -> Pixels]]

\* the tensors [n, k, 1, 1, 1] whose images are the same within a class
Uniform(n, k) == {[c \in 1..n |-> [q \in 1..k |-> p[c]]] : p \in [1..n -> Pixels]}

\* the inputs of the specification of a single forward call
Supports == UNION {Tensors(n, k) : n \in 1..MaxClass, k \in Shots}
Queries == UNION {Uniform(n, k) : n \in 1..MaxClass, k \in Shots}

\* the tensor [n, k, 1, 1, 1] whose first image is 0 and whose others are 2
Ramp(n, k) == [c \in 1..n |-> [s \in 1..k |-> IF c = 1 /\ s = 1 THEN 0 ELSE 2 * Scale]]

\* the inputs of the specification of the program's runs
RunTensors == {Ramp(1, 1), Ramp(2, 2)}

\* the contents a weights file written by an earlier run can have
Checkpoint == ConvergedFrom(1, Rows(Ramp(2, 1)), InitialWeights(1))

(***************************************************************************)
(* State.                                                                  *)
(***************************************************************************)
VARIABLES
    weights,    \* the weights of the model instance the program holds
    fresh,      \* the instance is as constructed: never called, never loaded
    file,       \* the weights file at model_path: <<>> (absent) or <<weights>>
    depth,      \* the frames of save on the call stack
    saved,      \* <<>>, or <<the weights and the file when save was last called,
                \* and whether an instance has been constructed since>>
    calls,      \* the number of forward calls so far
    last        \* the last operation that ended, with its arguments and results

vars == <<weights, fresh, file, depth, saved, calls, last>>

RecursionError == "RecursionError"

NoCall == [w |-> <<>>, raised |-> NoError, ret |-> <<>>, z_support |-> <<>>,
           z_prototypes |-> <<>>, z_query |-> <<>>, dists |-> <<>>, eq |-> <<>>]

\* the record of an operation that ended: pre and was_fresh are the weights
\* and the fresh flag it started from
Ended(op, raised, pre, was_fresh, support, query, training, res) ==
    [op |-> op, raised |-> raised, pre |-> pre, was_fresh |-> was_fresh,
     support |-> support, query |-> query, training |-> training, res |-> res]

Constructed == Ended("__init__", NoError, <<>>, TRUE, <<>>, <<>>, FALSE, NoCall)

Init ==
    /\ weights \in {InitialWeights(s) : s \in Seeds}
    /\ fresh = TRUE
    /\ file \in {<<>>, <<Checkpoint>>}
    /\ depth = 0
    /\ saved = <<>>
    /\ calls = 0
    /\ last = Constructed

\* Prototypical(n_support, n_query, w, h, c): the program replaces its instance
\* by a newly constructed one
Construct(seed) ==
    /\ depth = 0
    /\ weights' = InitialWeights(seed)
    /\ fresh' = TRUE
    /\ last' = Constructed
    /\ saved' = IF saved = <<>> THEN saved
                ELSE << [saved[1] EXCEPT !.constructed = TRUE] >>
    /\ UNCHANGED <<file, depth, calls>>

\* model(support, query, training): one forward call
Call(support, query, training) ==
    /\ depth = 0
    /\ calls < MaxCalls
    /\ \E r \in {call(weights, support, query, training)} :
           /\ weights' = r.w
           /\ last' = Ended("call", r.raised, weights, fresh, support, query, training, r)
    /\ fresh' = FALSE
    /\ calls' = calls + 1
    /\ UNCHANGED <<file, depth, saved>>

\* model.save(model_path) is called: the first frame of save
SaveEnter ==
    /\ depth = 0
    /\ depth' = 1
    /\ saved' = << [w |-> weights, file |-> file, constructed |-> FALSE] >>
    /\ UNCHANGED <<weights, fresh, file, calls, last>>

\* the top frame of save runs its body: a new frame, or the interpreter's
\* RecursionError when the stack is full, which no frame catches
SaveStep ==
    /\ depth >= 1
    /\ \E b \in {SaveBody(weights, file)} :
           /\ file' = b.file
           /\ IF b.recurse /\ depth < RecursionLimit
              THEN /\ depth' = depth + 1
                   /\ UNCHANGED last
              ELSE /\ depth' = 0
                   /\ last' = Ended("save", IF b.recurse THEN RecursionError ELSE NoError,
                                    weights, fresh, <<>>, <<>>, FALSE, NoCall)
    /\ UNCHANGED <<weights, fresh, saved, calls>>

\* model.load(model_path)
Load ==
    /\ depth = 0
    /\ \E r \in {load(weights, file)} :
           /\ weights' = r.w
           /\ fresh' = (fresh /\ r.raised # NoError)
           /\ last' = Ended("load", r.raised, weights, fresh, <<>>, <<>>, FALSE, NoCall)
    /\ UNCHANGED <<file, depth, saved, calls>>

Next ==
    \/ \E seed \in Seeds : Construct(seed)
    \/ \E support \in RunTensors, query \in RunTensors, training \in BOOLEAN :
            Call(support, query, training)
    \/ SaveEnter
    \/ SaveStep
    \/ Load

Spec == Init /\ [][Next]_vars

(***************************************************************************)
(* The forward call as a function of its inputs: the model is in any state *)
(* construction or a load can leave it in, and one call is made.           *)
(***************************************************************************)
InitCall ==
    /\ weights \in {InitialWeights(s) : s \in Seeds} \cup {Checkpoint}
    /\ fresh = TRUE
    /\ file = <<>>
    /\ depth = 0
    /\ saved = <<>>
    /\ calls = 0
    /\ last = Constructed

NextCall ==
    \E support \in Supports, query \in Queries, training \in BOOLEAN :
        calls = 0 /\ Call(support, query, training)

SpecCall == InitCall /\ [][NextCall]_vars

(***************************************************************************)
(* What the properties below are stated in.                                *)
(***************************************************************************)
CallEnded == last.op = "call"
CallReturned == last.op = "call" /\ last.raised = NoError

\* the shapes of the last call's episode
NClass == Shape0(last.support)
NSupport == Shape1(last.support)
NQuery == Shape1(last.query)

\* the row of the query at position (k, q) in the distance matrix
RowOf(k, q) == (k - 1) * NQuery + q

\* all pairwise sums of two sequences of exponents
PairSums(a, b) ==
    AsSeq([i \in 1..(Len(a) * Len(b)) |->
        a[((i - 1) \div Len(b)) + 1] + b[((i - 1) % Len(b)) + 1]])

RECURSIVE ProductExps(_)
ProductExps(ps) ==
    IF ps = <<>> THEN <<0>> ELSE PairSums(Head(ps), ProductExps(Tail(ps)))

RECURSIVE Concat(_)
Concat(ss) == IF ss = <<>> THEN <<>> ELSE Head(ss) \o Concat(Tail(ss))

(***************************************************************************)
(* The value of a loss.  With X = exp(-1/Scale), minus a log-probability   *)
(* [logit, row] is the logarithm of  sum_j X^(logit - row[j]),  so a loss  *)
(* over n queries is 1/n times the logarithm of the product of these       *)
(* polynomials in X.  X is transcendental: two losses over n queries are   *)
(* the same number exactly when the products are the same polynomial,      *)
(* kept here as the map from each exponent to its coefficient.             *)
(***************************************************************************)
LossPoly(loss) ==
    LET entries == Concat(loss)
        exps == ProductExps([e \in 1..Len(entries) |->
                    AsSeq([j \in 1..Len(entries[e].row) |->
                        entries[e].logit - entries[e].row[j]])])
    IN  [x \in {exps[i] : i \in 1..Len(exps)} |->
            Cardinality({i \in 1..Len(exps) : exps[i] = x})]

\* two returns of call are the same: both nothing, or the same loss and accuracy
RetEqual(r1, r2) ==
    IF r1 = <<>> \/ r2 = <<>> THEN r1 = r2
    ELSE /\ Len(r1[1]) = Len(r2[1])
         /\ LossPoly(r1[1]) = LossPoly(r2[1])
         /\ r1[2].num * r2[2].den = r2[2].num * r1[2].den

\* the weights w with the batch-normalization statistics as constructed
ResetStats(w) ==
    [w EXCEPT !.bn = AsSeq([l \in Blocks |->
        [w.bn[l] EXCEPT !.mmean = AsSeq([j \in Chans |-> 0]),
                        !.mvar  = AsSeq([j \in Chans |-> Scale])]])]

C2_ForwardIsPure ==
    CallEnded =>
        /\ weights = last.pre
        /\ RetEqual(call(weights, last.support, last.query, last.training).ret,
                    last.res.ret)

(***************************************************************************)
(* C8.  The training flag has no influence on the forward call: with the   *)
(* other value of the flag, the call from the same weights on the same     *)
(* episode returns the same loss and accuracy (or raises the same error)   *)
(* and leaves the same weights.                                            *)
(***************************************************************************)
C8_TrainingFlagIgnored ==
    CallEnded =>
        \A t \in BOOLEAN :
            \E o \in {call(last.pre, last.support, last.query, t)} :
                /\ o.w = weights
                /\ o.raised = last.raised
                /\ RetEqual(o.ret, last.res.ret)

\* a call with training=True returned, on weights an earlier call has changed
C8_Witness ==
    /\ CallReturned
    /\ last.training = TRUE
    /\ NClass = 2
    /\ last.pre # ResetStats(last.pre)
    /\ weights # last.pre

(***************************************************************************)
(* C10.  The prototypes of a call are the class means of the training-mode *)
(* embeddings of that call's support rows, and no statistic carried over   *)
(* from earlier calls or from a load enters them: they are the same from   *)
(* the weights with the statistics as constructed.                         *)
(***************************************************************************)
C10_PrototypesFromScratch ==
    CallEnded =>
        \E z \in {BlocksFrom(1, Rows(last.support), ResetStats(last.pre), TRUE).x} :
            last.res.z_prototypes =
                [k \in 1..NClass |->
                    [d \in 1..Len(z[1]) |->
                        RoundDiv(SumSeq([s \in 1..NSupport |-> z[(k - 1) * NSupport + s][d]]),
                                 NSupport)]]

\* the second call of a run, on statistics the first call has changed
C10_Witness ==
    /\ CallEnded
    /\ calls = 2
    /\ NClass = 2
    /\ NSupport = 2
    /\ last.pre # ResetStats(last.pre)
    /\ last.res.z_prototypes[1] # last.res.z_prototypes[2]

(***************************************************************************)
(* C1.  Round trip: after save on a model and then load into a freshly     *)
(* constructed model, the fresh model returns the same loss and accuracy   *)
(* as the saved model on every episode.                                    *)
(***************************************************************************)
C1_SaveLoadRoundTrip ==
    (last.op = "load" /\ last.was_fresh /\ saved # <<>> /\ saved[1].constructed) =>
        \A support \in RunTensors, query \in RunTensors :
            RetEqual(call(weights, support, query, FALSE).ret,
                     call(saved[1].w, support, query, FALSE).ret)

(***************************************************************************)
(* C3.  A query whose leading axis differs from the support's n_class      *)
(* makes the call fail: it raises the shape error and returns no loss and  *)
(* no accuracy.                                                            *)
(***************************************************************************)
C3_MismatchedClassesFail ==
    (CallEnded /\ Shape0(last.query) # Shape0(last.support)) =>
        /\ last.raised = ShapeError
        /\ last.res.ret = <<>>

\* a call whose query has more class blocks than the support, enough images
\* to fill n_class * n_query rows, has failed
C3_Witness ==
    /\ CallEnded
    /\ Shape0(last.query) > Shape0(last.support)
    /\ Shape1(last.query) = 2
    /\ last.raised = ShapeError

(***************************************************************************)
(* C4.  The accuracy a call returns is k / (n_class * n_query) for an      *)
(* integer k from 0 to n_class * n_query.                                  *)
(***************************************************************************)
C4_AccuracyIsFraction ==
    CallReturned =>
        \E acc \in {last.res.ret[2]} :
            /\ acc.den > 0
            /\ \E k \in 0..(NClass * NQuery) :
                   acc.num * (NClass * NQuery) = k * acc.den

\* a call of two classes and two queries each returned an accuracy of 3/4 or 2/4
C4_Witness ==
    /\ CallReturned
    /\ NClass = 2
    /\ NQuery = 2
    /\ last.res.ret[2].num >= 2
    /\ last.res.ret[2].num < last.res.ret[2].den

(***************************************************************************)
(* C5.  An episode of one class, one support image and one query image     *)
(* has accuracy 1, whatever the weights and the images.                    *)
(***************************************************************************)
C5_SingleClassAccuracyOne ==
    (CallReturned /\ NClass = 1 /\ NSupport = 1 /\ NQuery = 1) =>
        /\ last.res.ret[2].den > 0
        /\ last.res.ret[2].num = last.res.ret[2].den

\* such a call returned, on loaded weights, with a query image other than the
\* support image
C5_Witness ==
    /\ CallReturned
    /\ NClass = 1 /\ NSupport = 1 /\ NQuery = 1
    /\ last.pre = Checkpoint
    /\ last.query # last.support
    /\ last.res.ret[2].num = 1

(***************************************************************************)
(* C6.  As claimed: when the support and the query tensor are the same and *)
(* the embeddings are not constant, every query is at most as far from its *)
(* own class's prototype as from any other prototype.                      *)
(***************************************************************************)
NonConstant(z) == \E i, j \in 1..Len(z) : z[i] # z[j]

FirstArgMin(row) ==
    (CHOOSE j \in 1..Len(row) :
        /\ \A i \in 1..Len(row) : row[j] <= row[i]
        /\ \A i \in 1..(j - 1) : row[i] > row[j]) - 1

AllDistancesTied ==
    \A i \in 1..Len(last.res.dists) : \A j \in 1..NClass :
        last.res.dists[i][j] = last.res.dists[i][1]

Correct == {kq \in (1..NClass) \X (1..NQuery) :
                FirstArgMin(last.res.dists[RowOf(kq[1], kq[2])]) = kq[1] - 1}

C9_AccuracyCountsFirstNearest ==
    CallReturned =>
        /\ \A k \in 1..NClass, q \in 1..NQuery :
               (last.res.eq[k][q] = 1) <=> (<<k, q>> \in Correct)
        /\ last.res.ret[2].num * (NClass * NQuery)
               = Cardinality(Correct) * last.res.ret[2].den
        /\ AllDistancesTied =>
               /\ Correct = {1} \X (1..NQuery)
               /\ last.res.ret[2].num * NClass = last.res.ret[2].den

\* a call of two classes and two queries each in which every query is
\* equally far from both prototypes
C9_Witness ==
    /\ CallReturned
    /\ NClass = 2
    /\ NQuery = 2
    /\ AllDistancesTied
    /\ last.res.ret[2].num = 2
=============================================================================
